---- MODULE Spec2Model ----
(***************************************************************************)
(* Model of the bridge's ServerManager (src/bridge/src/ServerManager.ts):  *)
(* the process supervisor and JSON-RPC multiplexer.  One action per event  *)
(* loop task: the public async methods up to their first await, their      *)
(* continuations (run from the microtask queue before any other task), and *)
(* the stream, process and timer callbacks.                                *)
(***************************************************************************)
EXTENDS Integers, Sequences, FiniteSets, TLC

VARIABLES
    servers,     \* this.servers: name -> index into inst, 0 when no entry
    inst,        \* every ServerInstance object created so far
    reqs,        \* every promise created by sendRequestInternal
    calls,       \* every call of startServer / sendRequest / stopServer
    microtasks,  \* continuations of settled awaits, in queue order
    wire         \* bytes a worker wrote to its stdout, not yet read

vars == <<servers, inst, reqs, calls, microtasks, wire>>

(***************************************************************************)
(* Bounds of the model.                                                    *)
(***************************************************************************)
MaxInst == 2        \* worker processes spawned in one behaviour
MaxCalls == 2       \* calls of the public methods in one behaviour
MaxChunks == 2      \* stdout 'data' events in one behaviour
MaxWriteFails == 1  \* failed writes to stdin in one behaviour
MaxErrors == 1      \* process 'error' events in one behaviour
MaxStream == 6      \* bytes of the stream fed to the framer
MaxAppends == 53    \* log appends in the recorder specification
MaxSoloCalls == 2   \* calls in the single-caller specification
MaxSoloChunks == 2  \* stdout 'data' events in the single-caller specification
MaxTwoCalls == 2    \* calls in the two-name specification
MaxMembers == 2     \* members of the one message of the typing specification
MaxLimit == 52      \* largest limit passed to getMessages
MaxLaterCalls == 2  \* calls made on the instance that is ready at the start
MaxLaterChunks == 1 \* chunks printed after the first handshake
MaxNotes == 2       \* notifications in the recorder specification

(***************************************************************************)
(* Program constants.                                                      *)
(***************************************************************************)
MAX_MESSAGES == 50

ConfigNames == {"weather", "notes"}
Names == {"weather", "notes", "ghost"}

Undefined == "undefined"
NoId == 0

(***************************************************************************)
(* JSON-RPC messages, reduced to the fields the manager reads: id, method, *)
(* result, error, and the text payload carried inside string values.       *)
(***************************************************************************)
Msg(id, method, result, error, text) ==
    [id |-> id, method |-> method, result |-> result, error |-> error, text |-> text]

NoMsg == Msg(NoId, Undefined, Undefined, Undefined, <<>>)

InitRequest(id) == Msg(id, "initialize", Undefined, Undefined, <<>>)

InitializedNotification ==
    Msg(NoId, "notifications/initialized", Undefined, Undefined, <<>>)

(***************************************************************************)
(* The wire.  A worker's stdout is a stream of bytes.  The alphabet:       *)
(*   "{" "}"      object delimiters          "\n"  line terminator         *)
(*   "1".."5"     an id member               " "   JSON whitespace         *)
(*   "m"          a method member            "r"   a result member         *)
(*   "c"          a result with capabilities "e"   an error member         *)
(*   "d"          a result with other capabilities                         *)
(*   "n"          a method member whose value is the empty string          *)
(*   "L" "T"      the two bytes of one non-ASCII character inside a string *)
(*   "x"          a byte no JSON text contains at this place               *)
(* After decoding, "L" "T" is the character "E"; a lone "L" or "T" decodes *)
(* to the replacement character "?".                                       *)
(***************************************************************************)
IdChars == {"1", "2", "3", "4", "5"}

IdOf(ch) ==
    CASE ch = "1" -> 1 [] ch = "2" -> 2 [] ch = "3" -> 3
      [] ch = "4" -> 4 [] ch = "5" -> 5 [] OTHER -> NoId

TextChars == {"E", "?"}

InnerChars == IdChars \cup {"m", "n", "r", "c", "d", "e", " "} \cup TextChars

RECURSIVE Decode(_)
Decode(bytes) ==
    IF bytes = <<>> THEN <<>>
    ELSE IF bytes[1] = "L"
         THEN IF Len(bytes) >= 2 /\ bytes[2] = "T"
              THEN <<"E">> \o Decode(SubSeq(bytes, 3, Len(bytes)))
              ELSE <<"?">> \o Decode(Tail(bytes))
         ELSE IF bytes[1] = "T"
              THEN <<"?">> \o Decode(Tail(bytes))
              ELSE <<bytes[1]>> \o Decode(Tail(bytes))

RECURSIVE Split(_)
Split(s) ==
    IF \A k \in 1..Len(s) : s[k] # "\n" THEN <<s>>
    ELSE LET k == CHOOSE j \in 1..Len(s) :
                      s[j] = "\n" /\ \A h \in 1..(j - 1) : s[h] # "\n"
         IN  <<SubSeq(s, 1, k - 1)>> \o Split(SubSeq(s, k + 1, Len(s)))

RECURSIVE Trim(_)
Trim(s) ==
    IF s = <<>> THEN s
    ELSE IF s[1] = " " THEN Trim(Tail(s))
    ELSE IF s[Len(s)] = " " THEN Trim(SubSeq(s, 1, Len(s) - 1))
    ELSE s

\* JSON.parse(line) succeeds and yields a value whose members can be read.
ParseOk(line) ==
    LET t == Trim(line) IN
    /\ Len(t) >= 2
    /\ t[1] = "{"
    /\ t[Len(t)] = "}"
    /\ \A k \in 2..(Len(t) - 1) : t[k] \in InnerChars

RECURSIVE LastId(_)
LastId(s) ==
    IF s = <<>> THEN NoId
    ELSE IF s[Len(s)] \in IdChars THEN IdOf(s[Len(s)])
    ELSE LastId(SubSeq(s, 1, Len(s) - 1))

Has(s, ch) == \E k \in 1..Len(s) : s[k] = ch

\* The value of the method member: of two members of one name JSON.parse
\* keeps the last.
RECURSIVE LastMethod(_)
LastMethod(s) ==
    IF s = <<>> THEN Undefined
    ELSE IF s[Len(s)] = "m" THEN "notifications/message"
    ELSE IF s[Len(s)] = "n" THEN ""
    ELSE LastMethod(SubSeq(s, 1, Len(s) - 1))

IsTextChar(ch) == ch \in TextChars

JSONParse(line) ==
    LET t == Trim(line)
        inner == SubSeq(t, 2, Len(t) - 1)
    IN  Msg(LastId(inner),
            LastMethod(inner),
            IF Has(inner, "c") THEN "caps"
            ELSE IF Has(inner, "d") THEN "caps2"
            ELSE IF Has(inner, "r") THEN "plain" ELSE Undefined,
            IF Has(inner, "e") THEN "failed" ELSE Undefined,
            SelectSeq(inner, IsTextChar))

(***************************************************************************)
(* MessageRecorder: logMessage.                                            *)
(***************************************************************************)
\* initResponse.result?.capabilities is there.
HasCapabilities(result) == result \in {"caps", "caps2"}

\* A JavaScript truthiness test of a member that is absent or a string.
Truthy(v) == v # Undefined /\ v # ""

MessageType(message) ==
    IF Truthy(message.method) THEN message.method
    ELSE IF message.result # Undefined THEN "response"
    ELSE IF message.error # Undefined THEN "error"
    ELSE "unknown"

LogEntry(direction, message) ==
    [direction |-> direction, message |-> message,
     messageType |-> MessageType(message)]

\* Mutant: a full log refuses the new entry instead of evicting the oldest.
LogMessageKeepsOldest(messageBuffer, direction, message) ==
    LET pushed == Append(messageBuffer, LogEntry(direction, message))
    IN  IF Len(pushed) > MAX_MESSAGES THEN messageBuffer ELSE pushed

LogMessage(messageBuffer, direction, message) ==
    LET pushed == Append(messageBuffer, LogEntry(direction, message))
    IN  IF Len(pushed) > MAX_MESSAGES THEN Tail(pushed) ELSE pushed

\* this.logMessage(instance, direction, message) on instance i of state S.
Log(S, i, direction, message) ==
    [S EXCEPT
        !.inst[i].messageBuffer = LogMessage(@, direction, message),
        !.inst[i].logged = Append(@, LogEntry(direction, message))]

(***************************************************************************)
(* The manager's state as one record, so that a handler that calls another *)
(* (sendRequest calls startServer, which calls sendRequestInternal) is the *)
(* composition of their operators.                                         *)
(***************************************************************************)
Cur ==
    [servers |-> servers, inst |-> inst, reqs |-> reqs, calls |-> calls,
     microtasks |-> microtasks]

Empty ==
    [servers |-> [n \in Names |-> 0], inst |-> <<>>, reqs |-> <<>>,
     calls |-> <<>>, microtasks |-> <<>>]

Commit(S) ==
    /\ servers' = S.servers
    /\ inst' = S.inst
    /\ reqs' = S.reqs
    /\ calls' = S.calls
    /\ microtasks' = S.microtasks

\* A ServerInstance as startServer creates it, with the closure variable
\* `buffer` of setupStreamHandlers, the child process (exited, signals), the
\* lines written to its stdin, and the history of its streams (raw bytes of
\* all chunks, the text they were decoded to, messages handed to
\* handleStdoutMessage, number of chunks, every entry ever appended to the
\* log, number of 'error' events, and how many lines of stdin had been
\* written when the process exited).
NewInstance(name) ==
    [name |-> name, status |-> "initializing", messageBuffer |-> <<>>,
     pendingRequests |-> {}, requestIdCounter |-> 1,
     serverCapabilities |-> Undefined,
     buffer |-> <<>>, exited |-> FALSE, signals |-> <<>>, stdin |-> <<>>,
     raw |-> <<>>, text |-> <<>>, delivered |-> <<>>, chunks |-> 0,
     logged |-> <<>>, errors |-> 0, readByWorker |-> 0]

\* Map operations on pendingRequests, a set of [id, req] entries with at
\* most one entry per id.
PendingHas(pending, id) == \E e \in pending : e.id = id

PendingGet(pending, id) == (CHOOSE e \in pending : e.id = id).req

PendingDelete(pending, id) == {e \in pending : e.id # id}

PendingSet(pending, id, r) ==
    PendingDelete(pending, id) \cup {[id |-> id, req |-> r]}

\* A call of one of the public async methods.
NewCall(op, name, message, parent) ==
    [op |-> op, name |-> name, pc |-> "running", inst |-> 0, req |-> 0,
     start |-> 0, parent |-> parent, error |-> "", message |-> message,
     held |-> {}]

(***************************************************************************)
(* Promises.  resolve / reject on a promise that is already settled has no *)
(* effect; settling a promise somebody awaits queues the continuation.     *)
(***************************************************************************)
Settle(S, r, state, value, error) ==
    IF S.reqs[r].promise # "pending" THEN S
    ELSE [S EXCEPT
            !.reqs[r].promise = state,
            !.reqs[r].value = value,
            !.reqs[r].error = error,
            !.microtasks = IF S.reqs[r].awaiter # 0
                           THEN Append(@, S.reqs[r].awaiter) ELSE @]

Resolve(S, r, message) == Settle(S, r, "fulfilled", message, "")

Reject(S, r, error) == Settle(S, r, "rejected", NoMsg, error)

ClearTimeout(S, r) ==
    IF S.reqs[r].timer = "armed" THEN [S EXCEPT !.reqs[r].timer = "cleared"] ELSE S

\* The promise of an async method settles; a sendRequest awaiting it resumes.
Finish(S, c, pc, error) ==
    [S EXCEPT
        !.calls[c].pc = pc,
        !.calls[c].error = error,
        !.microtasks = IF S.calls[c].parent # 0
                       THEN Append(@, S.calls[c].parent) ELSE @]

(***************************************************************************)
(* RequestCorrelator: sendRequestInternal and handleStdoutMessage.         *)
(***************************************************************************)
\* Mutant: the counter is not advanced when it gives out an id.
SendRequestInternalKeepsCounter(S, i, request, awaiter) ==
    LET assign == request.id = NoId
        id == IF assign THEN S.inst[i].requestIdCounter ELSE request.id
        sent == [request EXCEPT !.id = id]
        r == Len(S.reqs) + 1
    IN  [Log(S, i, "request", sent) EXCEPT
            !.inst[i].pendingRequests = PendingSet(@, id, r),
            !.inst[i].stdin = Append(@, sent),
            !.reqs = Append(@, [inst |-> i, id |-> id, promise |-> "pending",
                                value |-> NoMsg, error |-> "", timer |-> "armed",
                                wcb |-> TRUE, after |-> Len(S.inst[i].delivered),
                                awaiter |-> awaiter])]

SendRequestInternal(S, i, request, awaiter) ==
    LET assign == request.id = NoId
        id == IF assign THEN S.inst[i].requestIdCounter ELSE request.id
        sent == [request EXCEPT !.id = id]
        r == Len(S.reqs) + 1
    IN  [Log(S, i, "request", sent) EXCEPT
            !.inst[i].requestIdCounter = IF assign THEN @ + 1 ELSE @,
            !.inst[i].pendingRequests = PendingSet(@, id, r),
            !.inst[i].stdin = Append(@, sent),
            !.reqs = Append(@, [inst |-> i, id |-> id, promise |-> "pending",
                                value |-> NoMsg, error |-> "", timer |-> "armed",
                                wcb |-> TRUE, after |-> Len(S.inst[i].delivered),
                                awaiter |-> awaiter])]

\* Mutant: a message without an id goes to the oldest pending entry.
HandleStdoutMessageIdless(S, i, message) ==
    LET logged == [Log(S, i, "response", message) EXCEPT
                     !.inst[i].delivered = Append(@, message)]
        pending == S.inst[i].pendingRequests
    IN  IF pending # {} /\ (message.id = NoId \/ PendingHas(pending, message.id))
        THEN LET e == IF message.id = NoId
                      THEN CHOOSE x \in pending : \A y \in pending : x.id <= y.id
                      ELSE CHOOSE x \in pending : x.id = message.id
                 removed == [ClearTimeout(logged, e.req) EXCEPT
                               !.inst[i].pendingRequests = PendingDelete(@, e.id)]
             IN  Resolve(removed, e.req, message)
        ELSE logged

\* Mutant: the reply is given to the oldest pending entry, whatever its id.
HandleStdoutMessageOldest(S, i, message) ==
    LET logged == [Log(S, i, "response", message) EXCEPT
                     !.inst[i].delivered = Append(@, message)]
        pending == S.inst[i].pendingRequests
    IN  IF message.id # NoId /\ pending # {}
        THEN LET e == CHOOSE x \in pending : \A y \in pending : x.id <= y.id
                 removed == [ClearTimeout(logged, e.req) EXCEPT
                               !.inst[i].pendingRequests = PendingDelete(@, e.id)]
             IN  Resolve(removed, e.req, message)
        ELSE logged

\* Mutant: only a message that answers a pending request is logged.
HandleStdoutMessageLogsMatched(S, i, message) ==
    LET handed == [S EXCEPT !.inst[i].delivered = Append(@, message)]
        pending == S.inst[i].pendingRequests
    IN  IF message.id # NoId /\ PendingHas(pending, message.id)
        THEN LET r == PendingGet(pending, message.id)
                 logged == Log(handed, i, "response", message)
                 removed == [ClearTimeout(logged, r) EXCEPT
                               !.inst[i].pendingRequests =
                                   PendingDelete(@, message.id)]
             IN  Resolve(removed, r, message)
        ELSE handed

\* Mutant: the message is handled on the instance recorded for the name of
\* the process, not on the instance of the process.
HandleStdoutMessageByName(S, i, message) ==
    LET rec == S.servers[S.inst[i].name]
        j == IF rec # 0 THEN rec ELSE i
        logged == [Log(S, j, "response", message) EXCEPT
                     !.inst[i].delivered = Append(@, message)]
        pending == S.inst[j].pendingRequests
    IN  IF message.id # NoId /\ PendingHas(pending, message.id)
        THEN LET r == PendingGet(pending, message.id)
                 removed == [ClearTimeout(logged, r) EXCEPT
                               !.inst[j].pendingRequests =
                                   PendingDelete(@, message.id)]
             IN  Resolve(removed, r, message)
        ELSE logged

HandleStdoutMessage(S, i, message) ==
    LET logged == [Log(S, i, "response", message) EXCEPT
                     !.inst[i].delivered = Append(@, message)]
        pending == S.inst[i].pendingRequests
    IN  IF message.id # NoId /\ PendingHas(pending, message.id)
        THEN LET r == PendingGet(pending, message.id)
                 removed == [ClearTimeout(logged, r) EXCEPT
                               !.inst[i].pendingRequests =
                                   PendingDelete(@, message.id)]
             IN  Resolve(removed, r, message)
        ELSE logged

(***************************************************************************)
(* StreamFramer: the stdout 'data' handler of setupStreamHandlers.         *)
(***************************************************************************)
\* Mutant: a line that does not parse is logged like a message.
ProcessLineLogsBadLine(S, i, line) ==
    IF Trim(line) = <<>> THEN S
    ELSE IF ParseOk(line) THEN HandleStdoutMessage(S, i, JSONParse(line))
    ELSE Log(S, i, "response", NoMsg)

ProcessLine(S, i, line) ==
    IF Trim(line) = <<>> THEN S
    ELSE IF ParseOk(line) THEN HandleStdoutMessage(S, i, JSONParse(line))
    ELSE S

RECURSIVE ProcessLines(_, _, _)
ProcessLines(S, i, lines) ==
    IF lines = <<>> THEN S
    ELSE ProcessLines(ProcessLine(S, i, Head(lines)), i, Tail(lines))

OnStdoutData(S, i, data) ==
    LET buffer == S.inst[i].buffer \o Decode(data)
        lines == Split(buffer)
        complete == SubSeq(lines, 1, Len(lines) - 1)
        kept == [S EXCEPT
                   !.inst[i].buffer = lines[Len(lines)],
                   !.inst[i].raw = @ \o data,
                   !.inst[i].text = @ \o Decode(data),
                   !.inst[i].chunks = @ + 1]
    IN  ProcessLines(kept, i, complete)

(***************************************************************************)
(* The process 'exit' and 'error' handlers of setupStreamHandlers.         *)
(***************************************************************************)
RECURSIVE RejectAll(_, _, _)
RejectAll(S, entries, error) ==
    IF entries = {} THEN S
    ELSE LET e == CHOOSE x \in entries : \A y \in entries : x.id <= y.id
         IN  RejectAll(Reject(ClearTimeout(S, e.req), e.req, error),
                       entries \ {e}, error)

\* The timers of the entries are cancelled, nothing is rejected.
RECURSIVE ClearAll(_, _)
ClearAll(S, entries) ==
    IF entries = {} THEN S
    ELSE LET e == CHOOSE x \in entries : \A y \in entries : x.id <= y.id
         IN  ClearAll(ClearTimeout(S, e.req), entries \ {e})

\* Mutant: the 'exit' handler cancels the timers and clears the map without
\* rejecting the requests.
OnExitDropsPending(S, i) ==
    LET stopped == [S EXCEPT
                      !.inst[i].status = "stopped",
                      !.inst[i].exited = TRUE,
                      !.inst[i].readByWorker = Len(S.inst[i].stdin)]
        cleared == ClearAll(stopped, S.inst[i].pendingRequests)
    IN  [cleared EXCEPT !.inst[i].pendingRequests = {}]

OnExit(S, i) ==
    LET stopped == [S EXCEPT
                      !.inst[i].status = "stopped",
                      !.inst[i].exited = TRUE,
                      !.inst[i].readByWorker = Len(S.inst[i].stdin)]
        rejected == RejectAll(stopped, S.inst[i].pendingRequests, "exited unexpectedly")
    IN  [rejected EXCEPT !.inst[i].pendingRequests = {}]

\* The 'error' handler, were it to mark every instance of the manager.
OnErrorMarksAll(S, i) ==
    [S EXCEPT !.inst = [j \in DOMAIN S.inst |->
                          [S.inst[j] EXCEPT !.status = "error",
                                            !.errors = IF j = i THEN @ + 1 ELSE @]]]

OnError(S, i) ==
    [S EXCEPT !.inst[i].status = "error", !.inst[i].errors = @ + 1]

(***************************************************************************)
(* The callbacks sendRequestInternal installs: the 30 s timer and the      *)
(* completion callback of the write to stdin.                              *)
(***************************************************************************)
\* Mutant: a request that times out is written once more.
OnTimeoutWritesAgain(S, r) ==
    LET i == S.reqs[r].inst
        fired == [S EXCEPT
                    !.reqs[r].timer = "fired",
                    !.inst[i].pendingRequests = PendingDelete(@, S.reqs[r].id),
                    !.inst[i].stdin = Append(@, S.inst[i].stdin[Len(S.inst[i].stdin)])]
    IN  Reject(fired, r, "timeout")

OnTimeout(S, r) ==
    LET i == S.reqs[r].inst
        fired == [S EXCEPT
                    !.reqs[r].timer = "fired",
                    !.inst[i].pendingRequests = PendingDelete(@, S.reqs[r].id)]
    IN  Reject(fired, r, "timeout")

OnWriteError(S, r) ==
    LET i == S.reqs[r].inst
        removed == [ClearTimeout(S, r) EXCEPT
                      !.reqs[r].wcb = FALSE,
                      !.inst[i].pendingRequests = PendingDelete(@, S.reqs[r].id)]
    IN  Reject(removed, r, "write failed")

(***************************************************************************)
(* ProcessSupervisor and HandshakeCoordinator: startServer.                *)
(***************************************************************************)
\* Mutant: startServer launches a process for a name without looking for
\* its configuration.
StartServerSkipsConfig(S, c, name) ==
    LET cur == S.servers[name] IN
    IF cur # 0 /\ S.inst[cur].status = "ready"
    THEN Finish(S, c, "resolved", "")
    ELSE LET i == Len(S.inst) + 1
             r == Len(S.reqs) + 1
             spawned == [S EXCEPT
                           !.inst = Append(@, NewInstance(name)),
                           !.servers[name] = i]
             counted == [spawned EXCEPT !.inst[i].requestIdCounter = @ + 1]
             request == InitRequest(spawned.inst[i].requestIdCounter)
         IN  [SendRequestInternal(counted, i, request, c) EXCEPT
                !.calls[c].pc = "await_init",
                !.calls[c].inst = i,
                !.calls[c].req = r]

\* Mutant: startServer without the check for a ready instance.
StartServerRespawns(S, c, name) ==
    IF name \notin ConfigNames
    THEN Finish(S, c, "rejected", "configuration not found")
    ELSE LET i == Len(S.inst) + 1
             r == Len(S.reqs) + 1
             spawned == [S EXCEPT
                           !.inst = Append(@, NewInstance(name)),
                           !.servers[name] = i]
             counted == [spawned EXCEPT !.inst[i].requestIdCounter = @ + 1]
             request == InitRequest(spawned.inst[i].requestIdCounter)
         IN  [SendRequestInternal(counted, i, request, c) EXCEPT
                !.calls[c].pc = "await_init",
                !.calls[c].inst = i,
                !.calls[c].req = r]

\* Mutant: the instance launched for a name takes over the capabilities of
\* the instance recorded for it before.
StartServerKeepsCapabilities(S, c, name) ==
    LET cur == S.servers[name] IN
    IF cur # 0 /\ S.inst[cur].status = "ready"
    THEN Finish(S, c, "resolved", "")
    ELSE IF name \notin ConfigNames
    THEN Finish(S, c, "rejected", "configuration not found")
    ELSE LET i == Len(S.inst) + 1
             r == Len(S.reqs) + 1
             spawned == [S EXCEPT
                           !.inst = Append(@, NewInstance(name)),
                           !.servers[name] = i]
             counted == [spawned EXCEPT
                           !.inst[i].requestIdCounter = @ + 1,
                           !.inst[i].serverCapabilities =
                               IF cur # 0 THEN S.inst[cur].serverCapabilities
                               ELSE @]
             request == InitRequest(spawned.inst[i].requestIdCounter)
         IN  [SendRequestInternal(counted, i, request, c) EXCEPT
                !.calls[c].pc = "await_init",
                !.calls[c].inst = i,
                !.calls[c].req = r]

\* startServer up to its await; c is the record of this call.
StartServer(S, c, name) ==
    LET cur == S.servers[name] IN
    IF cur # 0 /\ S.inst[cur].status = "ready"
    THEN Finish(S, c, "resolved", "")
    ELSE IF name \notin ConfigNames
    THEN Finish(S, c, "rejected", "configuration not found")
    ELSE LET i == Len(S.inst) + 1
             r == Len(S.reqs) + 1
             spawned == [S EXCEPT
                           !.inst = Append(@, NewInstance(name)),
                           !.servers[name] = i]
             counted == [spawned EXCEPT !.inst[i].requestIdCounter = @ + 1]
             request == InitRequest(spawned.inst[i].requestIdCounter)
         IN  [SendRequestInternal(counted, i, request, c) EXCEPT
                !.calls[c].pc = "await_init",
                !.calls[c].inst = i,
                !.calls[c].req = r]

\* Mutant: an error in the reply fails the call and leaves the status.
StartServerResumeKeepsStatus(S, c) ==
    LET i == S.calls[c].inst
        r == S.calls[c].req
        initResponse == S.reqs[r].value
    IN  IF S.reqs[r].promise = "rejected"
        THEN Finish([S EXCEPT !.inst[i].status = "error"], c, "rejected",
                    S.reqs[r].error)
        ELSE IF Truthy(initResponse.error)
        THEN Finish(S, c, "rejected", "initialize failed")
        ELSE LET written ==
                     [S EXCEPT
                        !.inst[i].serverCapabilities =
                            IF HasCapabilities(initResponse.result)
                            THEN initResponse.result ELSE @,
                        !.inst[i].stdin = Append(@, InitializedNotification)]
                 noted == Log(written, i, "request", InitializedNotification)
             IN  Finish([noted EXCEPT !.inst[i].status = "ready"],
                        c, "resolved", "")

\* Mutant: the instance is marked ready without the notification.
StartServerResumeSkipsNotification(S, c) ==
    LET i == S.calls[c].inst
        r == S.calls[c].req
        initResponse == S.reqs[r].value
    IN  IF S.reqs[r].promise = "rejected"
        THEN Finish([S EXCEPT !.inst[i].status = "error"], c, "rejected",
                    S.reqs[r].error)
        ELSE IF Truthy(initResponse.error)
        THEN Finish([S EXCEPT !.inst[i].status = "error"], c, "rejected",
                    "initialize failed")
        ELSE LET written ==
                     [S EXCEPT
                        !.inst[i].serverCapabilities =
                            IF HasCapabilities(initResponse.result)
                            THEN initResponse.result ELSE @]
             IN  Finish([written EXCEPT !.inst[i].status = "ready"],
                        c, "resolved", "")

\* Mutant: every successful handshake stores the same capability set.
StartServerResumeFixedCapabilities(S, c) ==
    LET i == S.calls[c].inst
        r == S.calls[c].req
        initResponse == S.reqs[r].value
    IN  IF S.reqs[r].promise = "rejected"
        THEN Finish([S EXCEPT !.inst[i].status = "error"], c, "rejected",
                    S.reqs[r].error)
        ELSE IF Truthy(initResponse.error)
        THEN Finish([S EXCEPT !.inst[i].status = "error"], c, "rejected",
                    "initialize failed")
        ELSE LET written ==
                     [S EXCEPT
                        !.inst[i].serverCapabilities =
                            IF HasCapabilities(initResponse.result)
                            THEN "caps" ELSE @,
                        !.inst[i].stdin = Append(@, InitializedNotification)]
                 noted == Log(written, i, "request", InitializedNotification)
             IN  Finish([noted EXCEPT !.inst[i].status = "ready"],
                        c, "resolved", "")

\* startServer from the settlement of the initialize call to its end.
\* Mutant: the notification is sent through the correlator like a request.
StartServerResumeRegistersNotification(S, c) ==
    LET i == S.calls[c].inst
        r == S.calls[c].req
        initResponse == S.reqs[r].value
    IN  IF S.reqs[r].promise = "rejected"
        THEN Finish([S EXCEPT !.inst[i].status = "error"], c, "rejected",
                    S.reqs[r].error)
        ELSE IF Truthy(initResponse.error)
        THEN Finish([S EXCEPT !.inst[i].status = "error"], c, "rejected",
                    "initialize failed")
        ELSE LET stored ==
                     [S EXCEPT
                        !.inst[i].serverCapabilities =
                            IF HasCapabilities(initResponse.result)
                            THEN initResponse.result ELSE @]
                 noted == SendRequestInternal(stored, i, InitializedNotification, 0)
             IN  Finish([noted EXCEPT !.inst[i].status = "ready"],
                        c, "resolved", "")

StartServerResume(S, c) ==
    LET i == S.calls[c].inst
        r == S.calls[c].req
        initResponse == S.reqs[r].value
    IN  IF S.reqs[r].promise = "rejected"
        THEN Finish([S EXCEPT !.inst[i].status = "error"], c, "rejected",
                    S.reqs[r].error)
        ELSE IF Truthy(initResponse.error)
        THEN Finish([S EXCEPT !.inst[i].status = "error"], c, "rejected",
                    "initialize failed")
        ELSE LET written ==
                     [S EXCEPT
                        !.inst[i].serverCapabilities =
                            IF HasCapabilities(initResponse.result)
                            THEN initResponse.result ELSE @,
                        !.inst[i].stdin = Append(@, InitializedNotification)]
                 noted == Log(written, i, "request", InitializedNotification)
             IN  Finish([noted EXCEPT !.inst[i].status = "ready"],
                        c, "resolved", "")

(***************************************************************************)
(* sendRequest and stopServer.                                             *)
(***************************************************************************)
Sent(S, c, i, request) ==
    [SendRequestInternal(S, i, request, 0) EXCEPT
        !.calls[c].pc = "sent",
        !.calls[c].inst = i,
        !.calls[c].req = Len(S.reqs) + 1]

\* sendRequest up to its await or, on a ready instance, to its return.
SendRequest(S, c, name, request) ==
    LET cur == S.servers[name] IN
    IF cur = 0 \/ S.inst[cur].status # "ready"
    THEN LET c2 == Len(S.calls) + 1
             awaiting == [S EXCEPT
                            !.calls = Append(@, NewCall("start", name, NoMsg, c)),
                            !.calls[c].pc = "await_start",
                            !.calls[c].start = c2]
         IN  StartServer(awaiting, c2, name)
    ELSE Sent(S, c, cur, request)

\* sendRequest after `await this.startServer(name)`.
SendRequestResume(S, c) ==
    LET c2 == S.calls[c].start
        cur == S.servers[S.calls[c].name]
    IN  IF S.calls[c2].pc = "rejected"
        THEN Finish(S, c, "rejected", S.calls[c2].error)
        ELSE IF cur = 0
        THEN Finish(S, c, "rejected", "TypeError")
        ELSE Sent(S, c, cur, S.calls[c].message)

\* server.process.kill(signal): the signal is sent unless the exit of the
\* child has been reported, after which kill() has no process to signal and
\* returns false.
Kill(S, i, signal) ==
    IF S.inst[i].exited THEN S
    ELSE [S EXCEPT !.inst[i].signals = Append(@, signal)]

\* stopServer up to its await of the grace period.
StopServer(S, c, name) ==
    LET cur == S.servers[name] IN
    IF cur = 0 THEN Finish(S, c, "resolved", "")
    ELSE [Kill(S, cur, "SIGTERM") EXCEPT
            !.calls[c].pc = "await_grace",
            !.calls[c].inst = cur,
            !.calls[c].held = {e.req : e \in S.inst[cur].pendingRequests}]

\* Mutant: the forceful kill is sent whatever the status, to a process that
\* may be gone.
StopServerResumeAlwaysKills(S, c) ==
    LET i == S.calls[c].inst
        killed == [S EXCEPT !.inst[i].signals = Append(@, "SIGKILL")]
    IN  Finish([killed EXCEPT !.servers[S.calls[c].name] = 0], c, "resolved", "")

\* stopServer after the grace period.
StopServerResume(S, c) ==
    LET i == S.calls[c].inst
        killed == IF S.inst[i].status # "stopped"
                  THEN Kill(S, i, "SIGKILL")
                  ELSE S
    IN  Finish([killed EXCEPT !.servers[S.calls[c].name] = 0], c, "resolved", "")

(***************************************************************************)
(* Reads.                                                                  *)
(***************************************************************************)
\* Array.prototype.slice(start) on a sequence.
Slice(s, start) ==
    LET from == IF start < 0
                THEN (IF Len(s) + start < 0 THEN 0 ELSE Len(s) + start)
                ELSE (IF start > Len(s) THEN Len(s) ELSE start)
    IN  SubSeq(s, from + 1, Len(s))

GetMessages(name, limit) ==
    IF servers[name] = 0 THEN <<>>
    ELSE Slice(inst[servers[name]].messageBuffer, 0 - limit)

\* Mutant: the status of the last instance launched for the name, recorded
\* or not.
GetServerStatusOfLastLaunched(name) ==
    LET mine == {i \in 1..Len(inst) : inst[i].name = name}
    IN  IF mine # {}
        THEN inst[CHOOSE i \in mine : \A j \in mine : j <= i].status
        ELSE "stopped"

GetServerStatus(name) ==
    IF servers[name] # 0 THEN inst[servers[name]].status ELSE "stopped"

GetServerCapabilities(name) ==
    IF servers[name] # 0 THEN inst[servers[name]].serverCapabilities
    ELSE Undefined

(***************************************************************************)
(* Actions: one per task of the event loop.  A task runs only when the     *)
(* microtask queue is empty; a queued continuation runs before any task.   *)
(***************************************************************************)
Called(S, op, name, message) ==
    [S EXCEPT !.calls = Append(@, NewCall(op, name, message, 0))]

CallStartServer(name) ==
    /\ microtasks = <<>>
    /\ Commit(StartServer(Called(Cur, "start", name, NoMsg), Len(calls) + 1, name))
    /\ UNCHANGED wire

CallSendRequest(name, request) ==
    /\ microtasks = <<>>
    /\ Commit(SendRequest(Called(Cur, "send", name, request), Len(calls) + 1,
                          name, request))
    /\ UNCHANGED wire

CallStopServer(name) ==
    /\ microtasks = <<>>
    /\ Commit(StopServer(Called(Cur, "stop", name, NoMsg), Len(calls) + 1, name))
    /\ UNCHANGED wire

RunMicrotask ==
    /\ microtasks # <<>>
    /\ LET c == Head(microtasks)
           S == [Cur EXCEPT !.microtasks = Tail(@)]
       IN  Commit(IF calls[c].op = "start" THEN StartServerResume(S, c)
                  ELSE SendRequestResume(S, c))
    /\ UNCHANGED wire

\* A 'data' event of instance i's stdout carrying the bytes `data`.
StdoutData(i, data) ==
    /\ microtasks = <<>>
    /\ i \in 1..Len(inst)
    /\ Commit(OnStdoutData(Cur, i, data))

ProcessExit(i) ==
    /\ microtasks = <<>>
    /\ i \in 1..Len(inst)
    /\ ~inst[i].exited
    /\ Commit(OnExit(Cur, i))
    /\ UNCHANGED wire

ProcessError(i) ==
    /\ microtasks = <<>>
    /\ i \in 1..Len(inst)
    /\ Commit(OnError(Cur, i))
    /\ UNCHANGED wire

\* Timers of equal delay fire in the order they were armed.
TimeoutFires(r) ==
    /\ microtasks = <<>>
    /\ r \in 1..Len(reqs)
    /\ reqs[r].timer = "armed"
    /\ \A q \in 1..(r - 1) : reqs[q].timer # "armed"
    /\ Commit(OnTimeout(Cur, r))
    /\ UNCHANGED wire

\* The process has replied with the id of request r since r was written:
\* the bytes of r reached it, so the write of r has not failed.
Answered(r) ==
    LET got == inst[reqs[r].inst].delivered
    IN  \E k \in (reqs[r].after + 1)..Len(got) : got[k].id = reqs[r].id

WriteFails(r) ==
    /\ microtasks = <<>>
    /\ r \in 1..Len(reqs)
    /\ reqs[r].wcb
    /\ ~Answered(r)
    /\ Commit(OnWriteError(Cur, r))
    /\ UNCHANGED wire

GraceElapsed(c) ==
    /\ microtasks = <<>>
    /\ c \in 1..Len(calls)
    /\ calls[c].op = "stop"
    /\ calls[c].pc = "await_grace"
    /\ Commit(StopServerResume(Cur, c))
    /\ UNCHANGED wire

(***************************************************************************)
(* Inputs.                                                                 *)
(***************************************************************************)
\* Ids a caller of sendRequest puts into its request itself.
SuppliedIds == {1, 2}

Requests ==
    {Msg(NoId, "tools/list", Undefined, Undefined, <<>>)}
        \cup {Msg(k, "tools/call", Undefined, Undefined, <<>>) : k \in SuppliedIds}

\* Ids of the requests instance i's process can have read from its stdin:
\* those written before it exited.
SeenIds(i) ==
    LET n == IF inst[i].exited THEN inst[i].readByWorker ELSE Len(inst[i].stdin)
    IN  {inst[i].stdin[k].id : k \in 1..n} \ {NoId}

IdChar(id) == CHOOSE ch \in IdChars : IdOf(ch) = id

\* What a worker prints in one chunk: a reply to a request it has been sent,
\* with a result, with capabilities or with an error, or a notification.
WorkerChunks(i) ==
    {<<"{", IdChar(id), k, "}", "\n">> : id \in SeenIds(i), k \in {"r", "c", "d", "e"}}
        \cup {<<"{", "m", "}", "\n">>}

NumCalls == Cardinality({c \in 1..Len(calls) : calls[c].parent = 0})

RECURSIVE Sum(_, _)
Sum(f, n) == IF n = 0 THEN 0 ELSE f[n] + Sum(f, n - 1)

NumChunks == Sum([i \in 1..Len(inst) |-> inst[i].chunks], Len(inst))

NumErrors == Sum([i \in 1..Len(inst) |-> inst[i].errors], Len(inst))

NumWriteFails == Cardinality({r \in 1..Len(reqs) : ~reqs[r].wcb})

IsReady(name) == servers[name] # 0 /\ inst[servers[name]].status = "ready"

\* A call for `name` launches a process.
Spawns(name) == name \in ConfigNames /\ ~IsReady(name)

(***************************************************************************)
(* The supervisor and correlator under arbitrary calls and worker events.  *)
(***************************************************************************)
Init ==
    /\ servers = Empty.servers
    /\ inst = <<>>
    /\ reqs = <<>>
    /\ calls = <<>>
    /\ microtasks = <<>>
    /\ wire = <<>>

\* The name the calls of this specification are made for.
Driven == {"weather"}

Next ==
    \/ \E n \in Driven :
          /\ NumCalls < MaxCalls
          /\ Spawns(n) => Len(inst) < MaxInst
          /\ CallStartServer(n)
    \/ \E n \in Driven, q \in Requests :
          /\ NumCalls < MaxCalls
          /\ Spawns(n) => Len(inst) < MaxInst
          /\ CallSendRequest(n, q)
    \/ \E n \in Driven :
          /\ NumCalls < MaxCalls
          /\ CallStopServer(n)
    \/ RunMicrotask
    \/ \E i \in 1..Len(inst) : \E d \in WorkerChunks(i) :
          /\ NumChunks < MaxChunks
          /\ StdoutData(i, d)
          /\ UNCHANGED wire
    \/ \E i \in 1..Len(inst) : ProcessExit(i)
    \/ \E i \in 1..Len(inst) : NumErrors < MaxErrors /\ ProcessError(i)
    \/ \E r \in 1..Len(reqs) : TimeoutFires(r)
    \/ \E r \in 1..Len(reqs) : NumWriteFails < MaxWriteFails /\ WriteFails(r)
    \/ \E c \in 1..Len(calls) : GraceElapsed(c)

Spec == Init /\ [][Next]_vars

(***************************************************************************)
(* States the manager reaches, built with its own operators: an instance   *)
(* after a successful handshake, without and with a request in flight.     *)
(***************************************************************************)
ListRequest == Msg(NoId, "tools/list", Undefined, Undefined, <<>>)

InitReply == <<"{", "1", "c", "}", "\n">>

Drained(S) == [S EXCEPT !.microtasks = Tail(@)]

ReadyState ==
    LET started == StartServer(Called(Empty, "start", "weather", NoMsg), 1, "weather")
        replied == OnStdoutData(started, 1, InitReply)
    IN  StartServerResume(Drained(replied), 1)

ReadyWithPending ==
    SendRequest(Called(ReadyState, "send", "weather", ListRequest), 2,
                "weather", ListRequest)

(***************************************************************************)
(* The framer alone: a byte stream, cut into chunks at arbitrary places,   *)
(* arrives on the stdout of a ready instance with one request in flight.   *)
(***************************************************************************)
FramerBytes == {"{", "}", "\n", "2", "L", "T"}

RECURSIVE SeqsUpTo(_, _)
SeqsUpTo(A, n) ==
    IF n = 0 THEN {<<>>}
    ELSE LET shorter == SeqsUpTo(A, n - 1)
         IN  shorter \cup {Append(s, a) : s \in {t \in shorter : Len(t) = n - 1}, a \in A}

InitFramer ==
    /\ servers = ReadyWithPending.servers
    /\ inst = ReadyWithPending.inst
    /\ reqs = ReadyWithPending.reqs
    /\ calls = ReadyWithPending.calls
    /\ microtasks = ReadyWithPending.microtasks
    /\ wire \in SeqsUpTo(FramerBytes, MaxStream)

\* The pipe hands over the first k bytes the worker wrote.
PipeDelivers(i, k) ==
    /\ k \in 1..Len(wire)
    /\ StdoutData(i, SubSeq(wire, 1, k))
    /\ wire' = SubSeq(wire, k + 1, Len(wire))

NextFramer == \E k \in 1..Len(wire) : PipeDelivers(1, k)

SpecFramer == InitFramer /\ [][NextFramer]_vars

(***************************************************************************)
(* The recorder alone: one ready instance that receives notifications and  *)
(* then serves requests one at a time, each ending by its timeout.         *)
(***************************************************************************)
InitLog ==
    /\ servers = ReadyState.servers
    /\ inst = ReadyState.inst
    /\ reqs = ReadyState.reqs
    /\ calls = ReadyState.calls
    /\ microtasks = ReadyState.microtasks
    /\ wire = <<>>

NextLog ==
    \/ /\ Len(inst[1].logged) < MaxAppends
       /\ inst[1].pendingRequests = {}
       /\ CallSendRequest("weather", ListRequest)
    \/ \E r \in 1..Len(reqs) : TimeoutFires(r)
    \/ /\ inst[1].chunks < 1 + MaxNotes
       /\ inst[1].requestIdCounter = 2
       /\ StdoutData(1, <<"{", "m", "}", "\n">>)
       /\ UNCHANGED wire

SpecLog == InitLog /\ [][NextLog]_vars

(***************************************************************************)
(* The typing of log entries alone: a ready instance whose worker prints   *)
(* one message made of method, result, error and id members, cut into      *)
(* chunks at arbitrary places.                                             *)
(***************************************************************************)
TypeBytes == {"m", "n", "r", "e", "2"}

InitType ==
    /\ servers = ReadyState.servers
    /\ inst = ReadyState.inst
    /\ reqs = ReadyState.reqs
    /\ calls = ReadyState.calls
    /\ microtasks = ReadyState.microtasks
    /\ wire \in {<<"{">> \o body \o <<"}", "\n">> :
                   body \in SeqsUpTo(TypeBytes, MaxMembers)}

NextType == \E k \in 1..Len(wire) : PipeDelivers(1, k)

SpecType == InitType /\ [][NextType]_vars

(***************************************************************************)
(* A caller that passes no ids of its own and lets a start or a stop       *)
(* return before it calls again: starts, stops and tools/list requests for *)
(* one name, and a worker that also prints messages without an id, with a  *)
(* result or an error in them.                                             *)
(***************************************************************************)
IdlessChunks == {<<"{", k, "}", "\n">> : k \in {"m", "r", "e"}}

\* No call is inside startServer or stopServer.
Quiet ==
    \A c \in 1..Len(calls) :
        calls[c].pc \notin {"await_init", "await_start", "await_grace"}

NextSolo ==
    \/ /\ NumCalls < MaxSoloCalls
       /\ Quiet
       /\ Spawns("weather") => Len(inst) < MaxInst
       /\ CallStartServer("weather")
    \/ /\ NumCalls < MaxSoloCalls
       /\ Quiet
       /\ Spawns("weather") => Len(inst) < MaxInst
       /\ CallSendRequest("weather", ListRequest)
    \/ /\ NumCalls < MaxSoloCalls
       /\ Quiet
       /\ CallStopServer("weather")
    \/ RunMicrotask
    \/ \E i \in 1..Len(inst) : \E d \in WorkerChunks(i) \cup IdlessChunks :
          /\ NumChunks < MaxSoloChunks
          /\ StdoutData(i, d)
          /\ UNCHANGED wire
    \/ \E i \in 1..Len(inst) : ProcessExit(i)
    \/ \E r \in 1..Len(reqs) : TimeoutFires(r)
    \/ \E r \in 1..Len(reqs) : NumWriteFails < MaxWriteFails /\ WriteFails(r)
    \/ \E c \in 1..Len(calls) : GraceElapsed(c)

SpecSolo == Init /\ [][NextSolo]_vars

(***************************************************************************)
(* The same caller and worker with the scheduling of the event loop: a     *)
(* queued continuation is run, and an armed timer that is not cancelled    *)
(* fires.                                                                  *)
(***************************************************************************)
\* No more requests are registered than two for each call: the initialize
\* request of a start and the request of a sendRequest.
ReqIds == 1..(2 * MaxSoloCalls)

SpecLive ==
    /\ Init
    /\ [][NextSolo]_vars
    /\ WF_vars(RunMicrotask)
    /\ \A r \in ReqIds : WF_vars(TimeoutFires(r))

(***************************************************************************)
(* Stops and restarts of a name whose instance is ready: calls that        *)
(* overlap, made by callers that pass no ids of their own.                 *)
(***************************************************************************)
InitRestart ==
    /\ servers = ReadyState.servers
    /\ inst = ReadyState.inst
    /\ reqs = ReadyState.reqs
    /\ calls = ReadyState.calls
    /\ microtasks = ReadyState.microtasks
    /\ wire = <<>>

NextRestart ==
    \/ /\ NumCalls < 1 + MaxLaterCalls
       /\ Spawns("weather") => Len(inst) < MaxInst
       /\ CallStartServer("weather")
    \/ /\ NumCalls < 1 + MaxLaterCalls
       /\ Spawns("weather") => Len(inst) < MaxInst
       /\ CallSendRequest("weather", ListRequest)
    \/ /\ NumCalls < 1 + MaxLaterCalls
       /\ CallStopServer("weather")
    \/ RunMicrotask
    \/ \E i \in 1..Len(inst) : \E d \in WorkerChunks(i) :
          /\ NumChunks < 1 + MaxLaterChunks
          /\ StdoutData(i, d)
          /\ UNCHANGED wire
    \/ \E i \in 1..Len(inst) : ProcessExit(i)
    \/ \E i \in 1..Len(inst) : NumErrors < MaxErrors /\ ProcessError(i)
    \/ \E r \in 1..Len(reqs) : TimeoutFires(r)
    \/ \E c \in 1..Len(calls) : GraceElapsed(c)

SpecRestart == InitRestart /\ [][NextRestart]_vars

(***************************************************************************)
(* Calls for a name that has no configuration, beside calls for a name     *)
(* whose instance is ready.                                                *)
(***************************************************************************)
NextGhost ==
    \/ \E n \in {"weather", "ghost"} :
          /\ NumCalls < 1 + MaxLaterCalls
          /\ Spawns(n) => Len(inst) < MaxInst
          /\ CallStartServer(n)
    \/ \E n \in {"weather", "ghost"} :
          /\ NumCalls < 1 + MaxLaterCalls
          /\ Spawns(n) => Len(inst) < MaxInst
          /\ CallSendRequest(n, ListRequest)
    \/ \E n \in {"weather", "ghost"} :
          /\ NumCalls < 1 + MaxLaterCalls
          /\ CallStopServer(n)
    \/ RunMicrotask
    \/ \E i \in 1..Len(inst) : \E d \in WorkerChunks(i) :
          /\ NumChunks < 1 + MaxLaterChunks
          /\ StdoutData(i, d)
          /\ UNCHANGED wire
    \/ \E i \in 1..Len(inst) : ProcessExit(i)
    \/ \E r \in 1..Len(reqs) : TimeoutFires(r)
    \/ \E c \in 1..Len(calls) : GraceElapsed(c)

SpecGhost == InitRestart /\ [][NextGhost]_vars

(***************************************************************************)
(* Two names side by side: calls for both configured names, made by        *)
(* callers that pass no ids of their own.                                  *)
(***************************************************************************)
NextTwo ==
    \/ \E n \in ConfigNames :
          /\ NumCalls < MaxTwoCalls
          /\ Spawns(n) => Len(inst) < MaxInst
          /\ CallStartServer(n)
    \/ \E n \in ConfigNames :
          /\ NumCalls < MaxTwoCalls
          /\ Spawns(n) => Len(inst) < MaxInst
          /\ CallSendRequest(n, ListRequest)
    \/ \E n \in ConfigNames :
          /\ NumCalls < MaxTwoCalls
          /\ CallStopServer(n)
    \/ RunMicrotask
    \/ \E i \in 1..Len(inst) : \E d \in WorkerChunks(i) :
          /\ NumChunks < MaxChunks
          /\ StdoutData(i, d)
          /\ UNCHANGED wire
    \/ \E i \in 1..Len(inst) : ProcessExit(i)
    \/ \E i \in 1..Len(inst) : NumErrors < MaxErrors /\ ProcessError(i)
    \/ \E r \in 1..Len(reqs) : TimeoutFires(r)
    \/ \E r \in 1..Len(reqs) : NumWriteFails < MaxWriteFails /\ WriteFails(r)
    \/ \E c \in 1..Len(calls) : GraceElapsed(c)

SpecTwo == Init /\ [][NextTwo]_vars

(***************************************************************************)
(* Vocabulary of the properties.                                           *)
(***************************************************************************)
Instances == 1..Len(inst)
Promises == 1..Len(reqs)
Calls == 1..Len(calls)

\* The pending map of r's instance holds the entry registered for r.
InMap(r) == \E e \in inst[reqs[r].inst].pendingRequests : e.req = r

Settlement(r) ==
    [promise |-> reqs[r].promise, value |-> reqs[r].value, error |-> reqs[r].error]

\* What the caller of a sendRequest call has got back.
SendOutcome(c) ==
    IF calls[c].pc = "rejected"
    THEN [promise |-> "rejected", value |-> NoMsg, error |-> calls[c].error]
    ELSE IF calls[c].pc = "sent" THEN Settlement(calls[c].req)
    ELSE [promise |-> "pending", value |-> NoMsg, error |-> ""]

\* This step is the firing of r's timer.
TimerFiresFor(r) == reqs[r].timer = "armed" /\ reqs'[r].timer = "fired"

\* This step is a 'data' event of instance i.
DataEventOn(i) == inst'[i].chunks = inst[i].chunks + 1

\* The messages this step handed to handleStdoutMessage on instance i.
Handed(i) ==
    SubSeq(inst'[i].delivered, Len(inst[i].delivered) + 1, Len(inst'[i].delivered))

\* Request r was sent by sendRequest, not by the handshake.
IsCallerRequest(r) == reqs[r].awaiter = 0

(***************************************************************************)
(* C1.  Each request issued through sendRequest settles once: a settled    *)
(* promise, and what sendRequest returned, never changes again, under any  *)
(* interleaving of responses, timeouts, write failures and exits; and a    *)
(* fulfilled request got a message whose id is the id it was sent with.    *)
(***************************************************************************)
C1_SettlesOnceWithOwnId ==
    [][ /\ \A r \in Promises :
             reqs[r].promise # "pending" => Settlement(r)' = Settlement(r)
        /\ \A c \in Calls :
             (calls[c].op = "send" /\ SendOutcome(c).promise # "pending")
                 => SendOutcome(c)' = SendOutcome(c)
        /\ \A r \in 1..Len(reqs') :
             reqs'[r].promise = "fulfilled" => reqs'[r].value.id = reqs'[r].id
      ]_vars

\* Two requests in flight together on one instance: the later one was
\* fulfilled, then the process exited and the earlier one was rejected.
C1_Witness ==
    \E r1, r2 \in Promises :
        /\ r1 < r2
        /\ IsCallerRequest(r1) /\ IsCallerRequest(r2)
        /\ reqs[r1].inst = reqs[r2].inst
        /\ reqs[r2].promise = "fulfilled"
        /\ reqs[r1].error = "exited unexpectedly"

(***************************************************************************)
(* C2.  When stopServer has resolved, none of the requests that were       *)
(* pending on the instance when it was called is still pending: each was   *)
(* rejected (or had been settled by its response, its timer or its write   *)
(* failure in the meantime), also when the process only dies on SIGKILL.   *)
(***************************************************************************)
C2_StopRejectsPendingFirst ==
    \A c \in Calls :
        (calls[c].op = "stop" /\ calls[c].pc = "resolved")
            => \A r \in calls[c].held :
                   IsCallerRequest(r) => reqs[r].promise # "pending"

(***************************************************************************)
(* C3.  A pending entry leaves the map once, together with the settlement  *)
(* of its request by the response, the timeout or the termination (or the  *)
(* write failure).  Once the entry of a request is gone, the firing of its *)
(* timer changes neither the map nor the settlement of another request,    *)
(* and after its rejection by the timeout or the termination a response    *)
(* with its id changes neither the map nor any settlement.                 *)
(***************************************************************************)
C3_RemovedOnceByFirstEvent ==
    [][ \A r \in Promises :
          /\ (InMap(r) /\ ~InMap(r)') => reqs'[r].promise # "pending"
          /\ (~InMap(r) /\ TimerFiresFor(r))
                => /\ inst'[reqs[r].inst].pendingRequests
                          = inst[reqs[r].inst].pendingRequests
                   /\ \A q \in Promises \ {r} : Settlement(q)' = Settlement(q)
          /\ (reqs[r].error \in {"timeout", "exited unexpectedly"}
                /\ DataEventOn(reqs[r].inst)
                /\ \A k \in 1..Len(Handed(reqs[r].inst)) :
                       Handed(reqs[r].inst)[k].id = reqs[r].id)
                => /\ inst'[reqs[r].inst].pendingRequests
                          = inst[reqs[r].inst].pendingRequests
                   /\ reqs' = reqs
      ]_vars

(***************************************************************************)
(* C4.  When the timer of a request fires, the request is rejected with    *)
(* the timeout error and no entry is left under its id; a response with    *)
(* that id that arrives afterwards settles nothing and leaves the pending  *)
(* map as it is.                                                           *)
(***************************************************************************)
C4_TimeoutThenLateResponse ==
    [][ \A r \in Promises :
          /\ TimerFiresFor(r)
                => /\ reqs'[r].promise = "rejected"
                   /\ reqs'[r].error = "timeout"
                   /\ ~PendingHas(inst'[reqs[r].inst].pendingRequests, reqs[r].id)
          /\ (reqs[r].error = "timeout" /\ DataEventOn(reqs[r].inst)
                /\ \A k \in 1..Len(Handed(reqs[r].inst)) :
                       Handed(reqs[r].inst)[k].id = reqs[r].id)
                => /\ inst'[reqs[r].inst].pendingRequests
                          = inst[reqs[r].inst].pendingRequests
                   /\ reqs' = reqs
      ]_vars

CompleteLines(s) == LET lines == Split(s) IN SubSeq(lines, 1, Len(lines) - 1)

RECURSIVE Parsed(_)
Parsed(lines) ==
    IF lines = <<>> THEN <<>>
    ELSE (IF ParseOk(Head(lines)) THEN <<JSONParse(Head(lines))>> ELSE <<>>)
            \o Parsed(Tail(lines))

IsResponseEntry(entry) == entry.direction = "response"

\* The messages of the log entries made for messages of the process.
ResponsesLogged(i) ==
    LET entries == SelectSeq(inst[i].logged, IsResponseEntry)
    IN  [k \in 1..Len(entries) |-> entries[k].message]

(***************************************************************************)
(* C6.  The framer is independent of chunking: whatever the cuts, the      *)
(* messages handed to handleStdoutMessage are, in order, the messages of   *)
(* the well-formed newline-terminated lines of the whole stream received   *)
(* so far, and nothing of the unterminated tail.                           *)
(***************************************************************************)
C6_FramerIndependentOfChunking ==
    \A i \in Instances :
        inst[i].delivered = Parsed(CompleteLines(Decode(inst[i].raw)))

(***************************************************************************)
(* C7.  A line that is not valid JSON is dropped alone.  The messages      *)
(* delivered are those of the well-formed complete lines of the text       *)
(* received, in order; the log has a response entry for each of them and   *)
(* for nothing else; a request is fulfilled by the first of them that has  *)
(* its id and came after it was sent, and stays pending in the map while   *)
(* there is none, whatever malformed lines came in between.                *)
(***************************************************************************)
C7_MalformedLineDroppedAlone ==
    \A i \in Instances :
        LET good == Parsed(CompleteLines(inst[i].text))
        IN  /\ inst[i].delivered = good
            /\ ResponsesLogged(i) = good
            /\ \A r \in Promises :
                  reqs[r].inst = i =>
                    LET hits == {k \in (reqs[r].after + 1)..Len(good) :
                                    good[k].id = reqs[r].id}
                    IN  IF hits = {}
                        THEN reqs[r].promise = "pending" /\ InMap(r)
                        ELSE /\ reqs[r].promise = "fulfilled"
                             /\ ~InMap(r)
                             /\ reqs[r].value
                                   = good[CHOOSE k \in hits : \A h \in hits : k <= h]

\* A malformed line that carries the id of the pending request was dropped,
\* and a well-formed line after it fulfilled that request.
C7_Witness ==
    LET lines == CompleteLines(inst[1].text)
    IN  \E j, k \in 1..Len(lines) :
           /\ j < k
           /\ Trim(lines[j]) # <<>>
           /\ ~ParseOk(lines[j])
           /\ Has(lines[j], "2")
           /\ ParseOk(lines[k])
           /\ reqs[2].promise = "fulfilled"
           /\ reqs[2].value = JSONParse(lines[k])

(***************************************************************************)
(* C8.  The message log of an instance never holds more than 50 entries,   *)
(* and it holds the last 50 of the entries appended to it (all of them     *)
(* while there are at most 50), in the order of their appending.           *)
(***************************************************************************)
C8_LogKeepsLastFifty ==
    \A i \in Instances :
        LET all == inst[i].logged
            n == Len(all)
        IN  /\ Len(inst[i].messageBuffer) <= MAX_MESSAGES
            /\ inst[i].messageBuffer
                  = IF n > MAX_MESSAGES
                    THEN SubSeq(all, n - MAX_MESSAGES + 1, n)
                    ELSE all

\* More than 50 entries were appended, requests and notifications among
\* them, and the oldest ones are gone.
C8_Witness ==
    /\ Len(inst[1].logged) > MAX_MESSAGES + 1
    /\ Len(inst[1].messageBuffer) = MAX_MESSAGES
    /\ inst[1].messageBuffer[1] # inst[1].logged[1]
    /\ \E k \in 1..MAX_MESSAGES : inst[1].messageBuffer[k].direction = "response"

\* Call c is a startServer call whose initialize call got reply `value`.
InitReplyOf(c) == reqs[calls[c].req].value

\* This step is the return of startServer call c from its await of the
\* initialize call, the reply to which carries an error.
ResumesOnErrorReply(c) ==
    /\ calls[c].op = "start"
    /\ calls[c].pc = "await_init"
    /\ calls'[c].pc # "await_init"
    /\ reqs[calls[c].req].promise = "fulfilled"
    /\ Truthy(InitReplyOf(c).error)

\* The position of the first entry e in the sequence log, 0 if there is none.
FirstLogged(log, e) ==
    IF \E k \in 1..Len(log) : log[k] = e
    THEN CHOOSE k \in 1..Len(log) :
            log[k] = e /\ \A h \in 1..(k - 1) : log[h] # e
    ELSE 0

(***************************************************************************)
(* C9.  When the reply to the initialize call carries an error, startServer *)
(* rejects, the status of the instance becomes error, its capabilities are *)
(* unset, no entry of the table is removed, so that getServerStatus gives  *)
(* error for the name the instance is recorded under, and nothing is       *)
(* written to its input pipe; the initialized notification is never        *)
(* written to an instance whose initialize reply carried an error.         *)
(***************************************************************************)
C9_ErrorReplyFailsStart ==
    [][ /\ \A c \in Calls :
              ResumesOnErrorReply(c) =>
                LET i == calls[c].inst
                    name == calls[c].name
                IN  /\ calls'[c].pc = "rejected"
                    /\ calls'[c].error = "initialize failed"
                    /\ inst'[i].status = "error"
                    /\ inst'[i].serverCapabilities = Undefined
                    /\ inst'[i].stdin = inst[i].stdin
                    /\ servers' = servers
                    /\ servers[name] = i =>
                          /\ GetServerStatus(name)' = "error"
                          /\ GetServerCapabilities(name)' = Undefined
        /\ \A r \in 1..Len(reqs') :
              (reqs'[r].awaiter # 0 /\ Truthy(reqs'[r].value.error))
                => LET i == reqs'[r].inst
                   IN  /\ \A k \in 1..Len(inst'[i].stdin) :
                              inst'[i].stdin[k] # InitializedNotification
                       /\ inst'[i].status # "ready"
                       /\ inst'[i].serverCapabilities = Undefined
      ]_vars

\* A startServer call was rejected for an error reply; its instance is the
\* one recorded for the name and getServerStatus gives error.
C9_Witness ==
    \E c \in Calls :
        /\ calls[c].op = "start"
        /\ calls[c].pc = "rejected"
        /\ calls[c].error = "initialize failed"
        /\ servers[calls[c].name] = calls[c].inst
        /\ GetServerStatus(calls[c].name) = "error"

(***************************************************************************)
(* C10.  An instance is ready only if a reply without an error to its own  *)
(* initialize call was received and the initialized notification was       *)
(* written to its input pipe afterwards; and the step that makes it ready  *)
(* is the one that writes the notification.                                *)
(***************************************************************************)
C10_ReadyOnlyAfterHandshake ==
    [][ \A i \in 1..Len(inst') :
          /\ inst'[i].status = "ready" =>
                \E r \in 1..Len(reqs') :
                   LET reply == LogEntry("response", reqs'[r].value)
                       note == LogEntry("request", InitializedNotification)
                   IN  /\ reqs'[r].inst = i
                       /\ reqs'[r].awaiter # 0
                       /\ reqs'[r].promise = "fulfilled"
                       /\ reqs'[r].value.id = reqs'[r].id
                       /\ ~Truthy(reqs'[r].value.error)
                       /\ \E k \in 1..Len(inst'[i].stdin) :
                              inst'[i].stdin[k] = InitializedNotification
                       /\ FirstLogged(inst'[i].logged, reply) # 0
                       /\ FirstLogged(inst'[i].logged, reply)
                             < FirstLogged(inst'[i].logged, note)
          /\ (i \in Instances /\ inst[i].status # "ready"
                /\ inst'[i].status = "ready")
                => inst'[i].stdin = Append(inst[i].stdin, InitializedNotification)
      ]_vars

\* An instance is ready and has served a request since.
C10_Witness ==
    \E i \in Instances :
        /\ inst[i].status = "ready"
        /\ \E r \in Promises :
              reqs[r].inst = i /\ IsCallerRequest(r) /\ reqs[r].promise = "fulfilled"

\* This step is the successful return of startServer call c from its
\* handshake.
HandshakeSucceeds(c) ==
    /\ calls[c].op = "start"
    /\ calls[c].pc = "await_init"
    /\ calls'[c].pc = "resolved"

(***************************************************************************)
(* C11.  When startServer succeeds after a handshake, the instance is      *)
(* ready; if the reply to initialize carries a capability set, that set is *)
(* the instance's serverCapabilities, and getServerCapabilities gives it   *)
(* for the name the instance is recorded under.                            *)
(***************************************************************************)
C11_CapabilitiesFromReply ==
    [][ \A c \in Calls :
          HandshakeSucceeds(c) =>
            LET i == calls[c].inst
                name == calls[c].name
                result == InitReplyOf(c).result
            IN  /\ reqs[calls[c].req].promise = "fulfilled"
                /\ ~Truthy(InitReplyOf(c).error)
                /\ inst'[i].status = "ready"
                /\ HasCapabilities(result) =>
                      /\ inst'[i].serverCapabilities = result
                      /\ servers[name] = i =>
                            GetServerCapabilities(name)' = result
      ]_vars

\* A start succeeded on a reply with the second capability set, and
\* getServerCapabilities gives that set.
C11_Witness ==
    \E c \in Calls :
        /\ calls[c].op = "start"
        /\ calls[c].pc = "resolved"
        /\ calls[c].req # 0
        /\ InitReplyOf(c).result = "caps2"
        /\ servers[calls[c].name] = calls[c].inst
        /\ GetServerStatus(calls[c].name) = "ready"
        /\ GetServerCapabilities(calls[c].name) = "caps2"

\* This step is a process 'error' event of instance i.
ErrorEventOn(i) == inst'[i].errors = inst[i].errors + 1

(***************************************************************************)
(* C12.  The status of an instance changes only from initializing to       *)
(* ready, from initializing to error, from ready to stopped, and from any  *)
(* status to error in a process 'error' event.                             *)
(***************************************************************************)
C12_StatusFollowsStateMachine ==
    [][ \A i \in Instances :
          inst'[i].status # inst[i].status =>
            \/ inst[i].status = "initializing" /\ inst'[i].status = "ready"
            \/ inst[i].status = "initializing" /\ inst'[i].status = "error"
            \/ inst[i].status = "ready" /\ inst'[i].status = "stopped"
            \/ ErrorEventOn(i) /\ inst'[i].status = "error"
      ]_vars

\* This step is the 'exit' event of instance i's process.
ExitEventOn(i) == ~inst[i].exited /\ inst'[i].exited

(***************************************************************************)
(* C13.  When the process of an instance exits, every call outstanding on  *)
(* that instance is rejected with the unexpected-exit error, the pending   *)
(* map is emptied and the status is stopped, whether stopServer was called *)
(* or not; a call rejected by the exit keeps that rejection.               *)
(***************************************************************************)
C13_ExitRejectsAllPending ==
    [][ /\ \A i \in Instances :
              ExitEventOn(i) =>
                /\ inst'[i].status = "stopped"
                /\ inst'[i].pendingRequests = {}
                /\ \A r \in Promises :
                      (reqs[r].inst = i /\ reqs[r].promise = "pending")
                        => /\ reqs'[r].promise = "rejected"
                           /\ reqs'[r].error = "exited unexpectedly"
        /\ \A r \in Promises :
              reqs[r].error = "exited unexpectedly"
                => Settlement(r)' = Settlement(r)
      ]_vars

(***************************************************************************)
(* C14.  No pending entry outlives its instance: the pending map of an     *)
(* instance whose process has exited is empty, and so is the pending map   *)
(* of an instance for which a stopServer call has resolved.                *)
(***************************************************************************)
C14_NoEntryOutlivesInstance ==
    /\ \A i \in Instances : inst[i].exited => inst[i].pendingRequests = {}
    /\ \A c \in Calls :
          (calls[c].op = "stop" /\ calls[c].pc = "resolved" /\ calls[c].inst # 0)
            => inst[calls[c].inst].pendingRequests = {}

\* The instances of `name` whose process was launched and has not exited.
Live(name) == {i \in Instances : inst[i].name = name /\ ~inst[i].exited}

(***************************************************************************)
(* C15.  For each name there is at most one launched process that has not  *)
(* exited, and it is the process of the instance recorded for that name.   *)
(***************************************************************************)
C15_OneLiveProcessPerName ==
    \A name \in Names :
        /\ Cardinality(Live(name)) <= 1
        /\ \A i \in Live(name) : servers[name] = i

\* The requests this step registered for callers of sendRequest.
NewCallerRequests ==
    {r \in (Len(reqs) + 1)..Len(reqs') : reqs'[r].awaiter = 0}

(***************************************************************************)
(* C16.  sendRequest writes its request only to an instance that is ready  *)
(* when it is written.                                                     *)
(***************************************************************************)
C16_WritesOnlyToReadyInstance ==
    [][ \A r \in NewCallerRequests :
          /\ inst'[reqs'[r].inst].status = "ready"
          /\ ~inst'[reqs'[r].inst].exited
      ]_vars

\* Request r got its id from the counter of its instance: the initialize
\* call, or a request a caller passed without an id.
IdAssigned(r) ==
    \/ reqs[r].awaiter # 0
    \/ \E c \in Calls : calls[c].req = r /\ calls[c].message.id = NoId

\* The ids the counter of instance i has given out, in the order of their
\* assignment.
RECURSIVE AssignedIds(_, _)
AssignedIds(i, n) ==
    IF n = 0 THEN <<>>
    ELSE IF reqs[n].inst = i /\ IdAssigned(n)
         THEN Append(AssignedIds(i, n - 1), reqs[n].id)
         ELSE AssignedIds(i, n - 1)

(***************************************************************************)
(* C17.  The ids assigned on one instance are 1, 2, 3, ... in the order of *)
(* their assignment, the initialize call having id 1; the counter holds    *)
(* the next one, so that no assigned id is assigned again.                 *)
(***************************************************************************)
C17_AssignedIdsCountUp ==
    \A i \in Instances :
        LET ids == AssignedIds(i, Len(reqs))
        IN  /\ \A k \in 1..Len(ids) : ids[k] = k
            /\ inst[i].requestIdCounter = Len(ids) + 1
            /\ \A r \in Promises :
                  (reqs[r].inst = i /\ reqs[r].awaiter # 0) => reqs[r].id = 1

\* An instance on which a caller's own id 2 was registered and the counter
\* afterwards assigned 2 to the next request.
C17_Witness ==
    \E i \in Instances : \E r \in Promises :
        /\ AssignedIds(i, Len(reqs)) = <<1, 2>>
        /\ reqs[r].inst = i
        /\ ~IdAssigned(r)
        /\ reqs[r].id = 2
        /\ \E q \in Promises : q > r /\ reqs[q].inst = i /\ IdAssigned(q)

\* The errors a sendRequest call is rejected with for a failed write, a
\* timeout, the exit of the process and a failed start.
TransportErrors ==
    {"write failed", "timeout", "exited unexpectedly",
     "initialize failed", "configuration not found"}

(***************************************************************************)
(* C18.  A message whose id has a pending entry fulfils the request of     *)
(* that entry with that very message, whether it carries a result or an    *)
(* error; and a sendRequest call is rejected only for a write failure, a   *)
(* timeout, the exit of the process or a failed start.                     *)
(***************************************************************************)
C18_ProtocolErrorsFulfil ==
    [][ /\ \A i \in Instances :
              DataEventOn(i) =>
                \A k \in 1..Len(Handed(i)) :
                   LET m == Handed(i)[k] IN
                   (/\ m.id # NoId
                    /\ PendingHas(inst[i].pendingRequests, m.id)
                    /\ \A h \in 1..(k - 1) : Handed(i)[h].id # m.id)
                     => LET r == PendingGet(inst[i].pendingRequests, m.id)
                        IN  /\ reqs'[r].promise = "fulfilled"
                            /\ reqs'[r].value = m
        /\ \A c \in 1..Len(calls') :
              (calls'[c].op = "send" /\ calls'[c].pc = "rejected")
                => calls'[c].error \in TransportErrors
        /\ \A r \in 1..Len(reqs') :
              reqs'[r].promise = "rejected"
                => reqs'[r].error \in TransportErrors
      ]_vars

(***************************************************************************)
(* C19.  When the timer of a request fires, only that request is rejected: *)
(* no status changes, no other request is settled or loses its timer, and  *)
(* every other entry of the pending map stays registered.                  *)
(***************************************************************************)
C19_TimeoutRejectsOnlyOne ==
    [][ \A r \in Promises :
          TimerFiresFor(r) =>
            /\ \A i \in Instances : inst'[i].status = inst[i].status
            /\ \A q \in Promises \ {r} :
                  /\ reqs'[q] = reqs[q]
                  /\ InMap(q) => InMap(q)'
      ]_vars

\* This step is the write callback of request r, called with an error.
WriteFailsFor(r) == reqs[r].wcb /\ ~reqs'[r].wcb

(***************************************************************************)
(* C20.  When the write of a request fails, its timer is cancelled, its    *)
(* entry is removed and, unless it was settled before, it is rejected with *)
(* the write error; no other request is settled or removed from the        *)
(* pending map; and the timer of the failed request never fires later.     *)
(***************************************************************************)
C20_WriteFailureRejectsOnlyOne ==
    [][ \A r \in Promises :
          /\ WriteFailsFor(r) =>
                /\ reqs'[r].timer # "armed"
                /\ ~InMap(r)'
                /\ reqs[r].promise = "pending"
                      => /\ reqs'[r].promise = "rejected"
                         /\ reqs'[r].error = "write failed"
                /\ \A q \in Promises \ {r} :
                      /\ reqs'[q] = reqs[q]
                      /\ InMap(q) => InMap(q)'
          /\ ~reqs[r].wcb => ~TimerFiresFor(r)
      ]_vars

\* What the claims call the Instance: the fields of the record the code
\* keeps, without the history kept here for the properties.
Fields(rec) ==
    [status |-> rec.status, messageBuffer |-> rec.messageBuffer,
     pendingRequests |-> rec.pendingRequests,
     requestIdCounter |-> rec.requestIdCounter,
     serverCapabilities |-> rec.serverCapabilities]

(***************************************************************************)
(* C21.  A message without an id is appended to the log and has no other   *)
(* effect: a 'data' event that hands over only such messages changes no    *)
(* pending map, no promise, no id counter, no status and no capabilities,  *)
(* and the log grows by one response entry for each of them.               *)
(***************************************************************************)
C21_IdlessMessageOnlyLogged ==
    [][ \A i \in Instances :
          (/\ DataEventOn(i)
           /\ \A k \in 1..Len(Handed(i)) : Handed(i)[k].id = NoId)
            => /\ reqs' = reqs
               /\ calls' = calls
               /\ servers' = servers
               /\ \A j \in Instances :
                     /\ inst'[j].pendingRequests = inst[j].pendingRequests
                     /\ inst'[j].requestIdCounter = inst[j].requestIdCounter
                     /\ inst'[j].status = inst[j].status
                     /\ inst'[j].serverCapabilities = inst[j].serverCapabilities
               /\ inst'[i].logged
                     = inst[i].logged
                         \o [k \in 1..Len(Handed(i)) |->
                               LogEntry("response", Handed(i)[k])]
      ]_vars

\* A request is pending although a message without an id, with a result in
\* it, was delivered after it was sent.
C21_Witness ==
    \E r \in Promises :
        /\ IsCallerRequest(r)
        /\ reqs[r].promise = "pending"
        /\ InMap(r)
        /\ \E k \in (reqs[r].after + 1)..Len(inst[reqs[r].inst].delivered) :
              LET m == inst[reqs[r].inst].delivered[k]
              IN  m.id = NoId /\ m.result # Undefined

C23_StartOnReadyIsNoOp ==
    [][ \A n \in Names :
          (/\ IsReady(n)
           /\ Len(calls') = Len(calls) + 1
           /\ calls'[Len(calls')].op = "start"
           /\ calls'[Len(calls')].name = n)
            => /\ inst' = inst
               /\ reqs' = reqs
               /\ servers' = servers
               /\ microtasks' = microtasks
               /\ calls'[Len(calls')].pc = "resolved"
               /\ \A c \in Calls : calls'[c] = calls[c]
      ]_vars

\* A startServer call was fulfilled without launching anything, and the
\* ready instance of its name holds its capabilities.
C23_Witness ==
    \E c \in Calls :
        /\ calls[c].op = "start"
        /\ calls[c].parent = 0
        /\ calls[c].pc = "resolved"
        /\ calls[c].inst = 0
        /\ IsReady(calls[c].name)
        /\ inst[servers[calls[c].name]].serverCapabilities # Undefined
        /\ Len(inst) = 1

(***************************************************************************)
(* C24.  The type of every log entry follows the fixed precedence over the *)
(* members its message has: the method's name if there is a method member, *)
(* otherwise "response" if there is a result member, otherwise "error" if  *)
(* there is an error member, otherwise "unknown".                          *)
(***************************************************************************)
C24_TypeByPrecedence ==
    \A i \in Instances : \A k \in 1..Len(inst[i].logged) :
        LET e == inst[i].logged[k]
            m == e.message
        IN  e.messageType =
                IF m.method # Undefined THEN m.method
                ELSE IF m.result # Undefined THEN "response"
                ELSE IF m.error # Undefined THEN "error"
                ELSE "unknown"

\* The messages of the log entries made for messages written to the process.
IsRequestEntry(entry) == entry.direction = "request"

RequestsLogged(i) ==
    LET entries == SelectSeq(inst[i].logged, IsRequestEntry)
    IN  [k \in 1..Len(entries) |-> entries[k].message]

(***************************************************************************)
(* C25.  Every message written to the process and every message parsed     *)
(* from its output has exactly one log entry, of the right direction and   *)
(* in order, whatever becomes of it: the request entries are the messages  *)
(* written to stdin, the response entries are the messages of the          *)
(* well-formed complete lines received.                                    *)
(***************************************************************************)
C25_EveryMessageLoggedOnce ==
    \A i \in Instances :
        /\ RequestsLogged(i) = inst[i].stdin
        /\ ResponsesLogged(i) = Parsed(CompleteLines(inst[i].text))
        /\ \A k \in 1..Len(inst[i].logged) :
              inst[i].logged[k].direction \in {"request", "response"}

\* A request was rejected for its timeout or its failed write, and a message
\* with its id that came later fulfilled nothing; both are in the log.
C25_Witness ==
    \E r \in Promises :
        LET i == reqs[r].inst IN
        /\ reqs[r].promise = "rejected"
        /\ reqs[r].error \in {"timeout", "write failed"}
        /\ \E k \in 1..Len(inst[i].stdin) : inst[i].stdin[k].id = reqs[r].id
        /\ \E k \in (reqs[r].after + 1)..Len(inst[i].delivered) :
              /\ inst[i].delivered[k].id = reqs[r].id
              /\ \A q \in Promises : reqs[q].value # inst[i].delivered[k]

\* The smaller of two numbers.
Min(a, b) == IF a < b THEN a ELSE b

(***************************************************************************)
(* C26.  getMessages(name, limit) returns the most recent                  *)
(* min(limit, log length) entries of the log of name's instance, oldest    *)
(* first, for every limit from 0 on, and the empty list when the name has  *)
(* no instance.                                                            *)
(***************************************************************************)
C26_GetMessagesReturnsSuffix ==
    \A name \in Names : \A limit \in 0..MaxLimit :
        GetMessages(name, limit) =
            IF servers[name] = 0 THEN <<>>
            ELSE LET log == inst[servers[name]].messageBuffer
                     n == Min(limit, Len(log))
                 IN  SubSeq(log, Len(log) - n + 1, Len(log))

Statuses == {"initializing", "ready", "error", "stopped"}

(***************************************************************************)
(* C27.  getServerStatus(name) returns one of initializing, ready, error   *)
(* and stopped: stopped when no instance is recorded for the name, never   *)
(* started or removed by stopServer, and the status of the recorded        *)
(* instance otherwise.                                                     *)
(***************************************************************************)
C27_StatusOfRecordedInstance ==
    \A name \in Names :
        /\ GetServerStatus(name) \in Statuses
        /\ servers[name] = 0 => GetServerStatus(name) = "stopped"
        /\ servers[name] # 0 => GetServerStatus(name) = inst[servers[name]].status

\* stopServer has removed the record of a name whose instance, not yet
\* exited, still has status ready; and another name was never started.
C27_Witness ==
    /\ servers["weather"] = 0
    /\ servers["ghost"] = 0
    /\ \E c \in Calls : calls[c].op = "stop" /\ calls[c].pc = "resolved"
    /\ \E i \in Instances :
          /\ inst[i].name = "weather"
          /\ inst[i].status = "ready"
          /\ ~inst[i].exited

\* Instance a is launched in this step.
Launched(a) == a \in 1..Len(inst') /\ a \notin Instances

(***************************************************************************)
(* C28.  The capabilities of an instance are set at most once, and only to *)
(* the capabilities of a reply to its initialize request that carries no   *)
(* error.  An instance launched for a name, the first or a later one, is    *)
(* fresh: when startServer reaches its await it has no capabilities, its   *)
(* log holds only its initialize request, its pending map only that        *)
(* request, with id 1, and its counter is 2; it is the instance recorded   *)
(* for the name, so getServerCapabilities(name) returns none, and goes on  *)
(* doing so while the recorded instance has stored no reply.               *)
(***************************************************************************)
C28_CapabilitiesOncePerInstance ==
    [][ /\ \A i \in Instances :
              inst'[i].serverCapabilities # inst[i].serverCapabilities
                => /\ inst[i].serverCapabilities = Undefined
                   /\ \E r \in Promises :
                         /\ reqs[r].inst = i
                         /\ reqs[r].awaiter # 0
                         /\ reqs[r].promise = "fulfilled"
                         /\ ~Truthy(reqs[r].value.error)
                         /\ HasCapabilities(reqs[r].value.result)
                         /\ inst'[i].serverCapabilities = reqs[r].value.result
        /\ \A a \in 1..Len(inst') :
              Launched(a)
                => /\ inst'[a].status = "initializing"
                   /\ inst'[a].serverCapabilities = Undefined
                   /\ inst'[a].messageBuffer
                         = <<LogEntry("request", InitRequest(1))>>
                   /\ {e.id : e \in inst'[a].pendingRequests} = {1}
                   /\ inst'[a].requestIdCounter = 2
                   /\ servers'[inst'[a].name] = a
                   /\ \A n \in Names :
                         inst'[a].name = n
                           => GetServerCapabilities(n)' = Undefined
        /\ \A n \in Names :
              (servers[n] # 0 /\ inst[servers[n]].serverCapabilities = Undefined)
                => GetServerCapabilities(n) = Undefined
      ]_vars

\* A name was restarted: its first instance had stored capabilities and a
\* longer log, and the instance recorded now has none yet.
C28_Witness ==
    \E a \in Instances : \E b \in Instances :
        /\ a < b
        /\ inst[a].name = inst[b].name
        /\ inst[a].serverCapabilities # Undefined
        /\ Len(inst[a].messageBuffer) >= 3
        /\ servers[inst[b].name] = b
        /\ inst[b].serverCapabilities = Undefined
        /\ GetServerCapabilities(inst[b].name) = Undefined

\* Request r is the first a caller sent to its instance.
FirstCallerRequest(r) ==
    \A q \in 1..(r - 1) : reqs'[q].inst = reqs'[r].inst => reqs'[q].awaiter # 0

(***************************************************************************)
(* C29.  The initialized notification carries no id; the step that emits   *)
(* it writes it to the input pipe and appends it to the log and does not   *)
(* register it: the pending map and the id counter of the instance stay as *)
(* they were, no promise and no timer is created.  So the first request a  *)
(* caller sends without an id to an instance gets id 2.                    *)
(***************************************************************************)
C29_NotificationNotRegistered ==
    [][ /\ \A c \in Calls :
              HandshakeSucceeds(c)
                => LET i == calls[c].inst IN
                   /\ InitializedNotification.id = NoId
                   /\ inst'[i].stdin
                         = Append(inst[i].stdin, InitializedNotification)
                   /\ inst'[i].logged
                         = Append(inst[i].logged,
                                  LogEntry("request", InitializedNotification))
                   /\ inst'[i].pendingRequests = inst[i].pendingRequests
                   /\ inst'[i].requestIdCounter = inst[i].requestIdCounter
                   /\ reqs' = reqs
        /\ \A r \in NewCallerRequests :
              (/\ FirstCallerRequest(r)
               /\ \E c \in 1..Len(calls') :
                     calls'[c].req = r /\ calls'[c].message.id = NoId)
                => reqs'[r].id = 2
      ]_vars

\* After the handshake a caller's first request of the instance is pending
\* under id 2, alone in the pending map, behind the notification on the pipe.
C29_Witness ==
    \E i \in Instances :
        /\ Len(inst[i].stdin) = 3
        /\ inst[i].stdin[1] = InitRequest(1)
        /\ inst[i].stdin[2] = InitializedNotification
        /\ inst[i].stdin[3].id = 2
        /\ {e.id : e \in inst[i].pendingRequests} = {2}
        /\ inst[i].requestIdCounter = 3

\* The number of messages this step wrote to the input pipe of instance i.
Written(i) ==
    Len(inst'[i].stdin) - (IF i \in Instances THEN Len(inst[i].stdin) ELSE 0)

(***************************************************************************)
(* C30.  There are no automatic retries.  Every message written to an      *)
(* input pipe is the one write of a request registered in the same step,   *)
(* or the notification of a handshake.  A request of a caller is written   *)
(* in the step of a sendRequest call or of its continuation, never in the  *)
(* step of a timeout, a write failure, an exit or a message, and it is the *)
(* only request of its call: a call that has written its request, or was   *)
(* rejected, writes nothing more.                                          *)
(***************************************************************************)
C30_NoAutomaticRetries ==
    [][ /\ \A i \in 1..Len(inst') :
              Written(i)
                = Cardinality({r \in (Len(reqs) + 1)..Len(reqs') : reqs'[r].inst = i})
                  + (IF \E c \in Calls : HandshakeSucceeds(c) /\ calls[c].inst = i
                     THEN 1 ELSE 0)
        /\ \A r \in NewCallerRequests :
              /\ Len(calls') > Len(calls) \/ microtasks # <<>>
              /\ \E c \in 1..Len(calls') :
                    /\ calls'[c].op = "send"
                    /\ calls'[c].req = r
                    /\ c \in Calls => calls[c].req = 0 /\ calls[c].pc # "rejected"
                    /\ \A d \in 1..Len(calls') : calls'[d].req = r => d = c
        /\ \A c \in Calls :
              (calls[c].op = "send" /\ (calls[c].req # 0 \/ calls[c].pc = "rejected"))
                => calls'[c].req = calls[c].req
      ]_vars

\* The request of a sendRequest call timed out, the call is rejected, and
\* the pipe of its instance holds the request once.
C30_Witness ==
    \E c \in Calls :
        /\ calls[c].op = "send"
        /\ calls[c].req # 0
        /\ SendOutcome(c).promise = "rejected"
        /\ SendOutcome(c).error = "timeout"
        /\ LET r == calls[c].req
               i == reqs[r].inst
           IN  Cardinality({k \in 1..Len(inst[i].stdin) :
                               /\ inst[i].stdin[k].id = reqs[r].id
                               /\ inst[i].stdin[k].method = "tools/list"}) = 1

\* Request r was rejected and this is the error it was rejected with.
RejectedWith(r, errors) ==
    reqs[r].promise = "rejected" /\ reqs[r].error \in errors

\* Request r is fulfilled with a message of its id, or rejected with one of
\* the errors.
ReleasedBy(r, errors) ==
    \/ reqs[r].promise = "fulfilled" /\ reqs[r].value.id = reqs[r].id
    \/ RejectedWith(r, errors)

\* Every registered request is settled in the end.
EverySettles ==
    \A r \in ReqIds :
        (r \in Promises /\ reqs[r].promise = "pending")
            ~> (r \in Promises /\ reqs[r].promise # "pending")

(***************************************************************************)
(* C31.  Every registered request eventually settles when armed timers     *)
(* fire, and a settled request was released by a message of its id, by its *)
(* timeout or by the exit of the process.                                  *)
(***************************************************************************)
C31_SettlesByOneOfThree ==
    /\ EverySettles
    /\ [](\A r \in Promises :
            reqs[r].promise # "pending"
              => ReleasedBy(r, {"timeout", "exited unexpectedly"}))

\* C31 as the code has it: the failure of the write is a fourth way for a
\* request to be released.
C31_SettlesByOneOfFour ==
    /\ EverySettles
    /\ [](\A r \in Promises :
            reqs[r].promise # "pending"
              => ReleasedBy(r, {"timeout", "exited unexpectedly", "write failed"}))

\* A request of a caller was released by its timeout after the process had
\* gone on running without answering it.
C31_Witness ==
    \E r \in Promises :
        /\ IsCallerRequest(r)
        /\ RejectedWith(r, {"timeout"})
        /\ reqs[r].timer = "fired"
        /\ ~inst[reqs[r].inst].exited

(***************************************************************************)
(* C32.  The pending entry of a request leaves the map only in the step    *)
(* that settles that request: registering another request never replaces   *)
(* it, and the timeout, the response or the failed write of another        *)
(* request never removes it, whatever ids the callers of sendRequest pass.  *)
(***************************************************************************)
C32_EntryLeavesOnlyWhenSettled ==
    [][ \A r \in Promises :
          (InMap(r) /\ ~InMap(r)')
            => /\ reqs[r].promise = "pending"
               /\ reqs'[r].promise # "pending"
      ]_vars

\* This step is the return of stopServer call c from its grace period.
StopReturns(c) ==
    /\ calls[c].op = "stop"
    /\ calls[c].pc = "await_grace"
    /\ calls'[c].pc = "resolved"

(***************************************************************************)
(* C33.  stopServer removes from the table only the instance it            *)
(* signalled: when another instance has been recorded for the name during  *)
(* the grace period, that instance is still recorded after stopServer      *)
(* returns.                                                                *)
(***************************************************************************)
C33_StopRemovesOnlyItsInstance ==
    [][ \A c \in Calls :
          (StopReturns(c) /\ servers[calls[c].name] # calls[c].inst)
            => servers'[calls[c].name] = servers[calls[c].name]
      ]_vars

(***************************************************************************)
(* C34.  When the startServer call made by sendRequest has succeeded and   *)
(* sendRequest has gone on, the request is registered and written: the     *)
(* call is not rejected for want of the record of the instance.            *)
(***************************************************************************)
C34_SendAfterStartFindsRecord ==
    \A c \in Calls :
        (/\ calls[c].op = "send"
         /\ calls[c].start # 0
         /\ calls[calls[c].start].pc = "resolved"
         /\ calls[c].pc # "await_start")
          => /\ calls[c].pc = "sent"
             /\ calls[c].req # 0

(***************************************************************************)
(* C35.  The output and the exit of a process affect only the instance of  *)
(* that process: a 'data' or an 'exit' event of one instance leaves the    *)
(* status, log, pending map, counter and capabilities of every other       *)
(* instance, the fresh instance of the same name among them, and every     *)
(* request of those instances as they were, also when the ids coincide.    *)
(***************************************************************************)
C35_OldProcessTouchesOnlyOldInstance ==
    [][ \A i \in Instances :
          (DataEventOn(i) \/ ExitEventOn(i))
            => /\ \A j \in Instances \ {i} : Fields(inst'[j]) = Fields(inst[j])
               /\ \A r \in Promises : reqs[r].inst # i => reqs'[r] = reqs[r]
               /\ servers' = servers
      ]_vars

\* A name was restarted; the old process has printed another message with
\* id 1 and has exited, and the initialize request of the fresh instance,
\* id 1 as well, is still pending on an instance that is not stopped.
C35_Witness ==
    \E a \in Instances : \E b \in Instances :
        /\ a < b
        /\ inst[a].name = inst[b].name
        /\ servers[inst[b].name] = b
        /\ Len(inst[a].delivered) >= 2
        /\ inst[a].delivered[2].id = 1
        /\ inst[a].exited
        /\ inst[a].status = "stopped"
        /\ inst[b].status = "initializing"
        /\ \E r \in Promises :
              /\ reqs[r].inst = b
              /\ reqs[r].id = 1
              /\ reqs[r].promise = "pending"
              /\ InMap(r)

(***************************************************************************)
(* C36.  The armed timers correspond one to one to the entries of the      *)
(* pending maps: the timer of a request is armed exactly while the map of  *)
(* its instance holds the entry registered for it, a map holds no two      *)
(* entries of one request, and a request whose timer is armed is pending.  *)
(***************************************************************************)
C36_TimersMatchPendingEntries ==
    /\ \A r \in Promises :
          /\ reqs[r].timer = "armed" <=> InMap(r)
          /\ reqs[r].timer = "armed" => reqs[r].promise = "pending"
    /\ \A i \in Instances : \A e \in inst[i].pendingRequests :
          /\ e.req \in Promises
          /\ reqs[e.req].inst = i
          /\ \A f \in inst[i].pendingRequests : f.req = e.req => f = e

NotFound == "configuration not found"

(***************************************************************************)
(* C38.  startServer and sendRequest for a name without a configuration    *)
(* are rejected with the configuration-not-found error and change nothing: *)
(* the steps of such a call launch no process, record no instance and      *)
(* register no request, and getServerStatus of the name stays stopped.     *)
(***************************************************************************)
C38_UnconfiguredNameRejected ==
    [][ /\ \A c \in 1..Len(calls') :
              (/\ calls'[c].name \notin ConfigNames
               /\ calls'[c].op \in {"start", "send"}
               /\ c \in Calls => calls'[c] # calls[c])
                => /\ inst' = inst
                   /\ reqs' = reqs
                   /\ servers' = servers
                   /\ \/ calls'[c].pc = "rejected" /\ calls'[c].error = NotFound
                      \/ /\ calls'[c].op = "send"
                         /\ calls'[c].pc = "await_start"
                         /\ calls'[calls'[c].start].pc = "rejected"
                         /\ calls'[calls'[c].start].error = NotFound
                         /\ \E k \in 1..Len(microtasks') : microtasks'[k] = c
        /\ \A n \in Names \ ConfigNames :
              /\ servers'[n] = 0
              /\ GetServerStatus(n)' = "stopped"
      ]_vars

\* A sendRequest and a startServer for the unconfigured name were rejected,
\* and the only instance is the one of the configured name.
C38_Witness ==
    /\ \E c \in Calls :
          /\ calls[c].op = "send"
          /\ calls[c].name = "ghost"
          /\ calls[c].pc = "rejected"
          /\ calls[c].error = NotFound
    /\ \E c \in Calls :
          /\ calls[c].op = "start"
          /\ calls[c].parent = 0
          /\ calls[c].name = "ghost"
          /\ calls[c].pc = "rejected"
    /\ Len(inst) = 1
    /\ GetServerStatus("ghost") = "stopped"

====
